---- MODULE Spec2Model ----
(***************************************************************************)
(* Model of the Makina revenue projection engine (src/src/calculator.py)   *)
(* and of the unit/scenario records it consumes (src/src/database.py).     *)
(*                                                                         *)
(* Numbers: the program computes in Python floats.  The model computes in  *)
(* exact rationals [n |-> numerator, d |-> denominator], kept in lowest    *)
(* terms with d > 0, so that equality of values is equality of records.    *)
(* The three non-finite float values are the records with d = 0:           *)
(* n = 0 is NaN, n = 1 is +inf and n = -1 is -inf.                         *)
(***************************************************************************)
EXTENDS Integers, Sequences, FiniteSets, TLC

VARIABLES
    start_date,       \* RevenueCalculator.start_date
    months,           \* RevenueCalculator.months
    dates,            \* RevenueCalculator.dates
    machines,         \* the unit list handed to calculate_all_machines
    scenario,         \* the scenario handed to calculate_all_machines
    pc,               \* position of the running call
    mi,               \* calculate_all_machines: index of the unit in the for loop
    di,               \* calculate_machine_projections: index of month_date in self.dates
    rate,             \* calculate_machine_projections: rate
    current_aum,      \* calculate_machine_projections: current_aum
    results,          \* calculate_machine_projections: results
    all_dfs,          \* calculate_all_machines: all_dfs
    all_projections,  \* the dataset calculate_all_machines returned
    view,             \* the result of the latest aggregator call on the dataset
    calls,            \* number of calculate_all_machines calls made on the calculator
    prev_dfs,         \* the projections the previous calculate_all_machines call got
    prev_machines,    \* the unit list handed to the previous calculate_all_machines call
    db_scenario,      \* database: the committed row of the scenario "Base Case"
    db_machines,      \* database: the committed rows of the table machines, in rowid order
    tx_machines,      \* restore_machines_snapshot: the table as its open transaction sees it
    session_state,    \* dashboard: st.session_state
    app_pc,           \* dashboard: position of the running script
    restore_i,        \* restore_machines_snapshot: index of machine_data in snapshot
    at_default,       \* history: the prices and units in effect when the defaults were taken
    before_restore,   \* history: the units of the scenario when the restore was called
    last_handler      \* history: the kind of the latest handler that ran to its end

calcVars == <<start_date, months, dates, machines, scenario, pc, mi, di, rate,
              current_aum, results, all_dfs, all_projections, view, calls, prev_dfs,
              prev_machines>>

sessVars == <<db_scenario, db_machines, tx_machines, session_state, app_pc,
              restore_i, at_default, before_restore, last_handler>>

vars == <<calcVars, sessVars>>

(***************************************************************************)
(* Bounds of the model.                                                    *)
(***************************************************************************)
MaxMonths == 4
MaxUnits == 2
MaxCalls == 2

(***************************************************************************)
(* Exact rational arithmetic standing for Python float arithmetic.         *)
(***************************************************************************)
Abs(x) == IF x < 0 THEN -x ELSE x

Sign(x) == IF x < 0 THEN -1 ELSE IF x > 0 THEN 1 ELSE 0

RECURSIVE GCD(_, _)
GCD(a, b) == IF b = 0 THEN a ELSE GCD(b, a % b)

\* the float n/d, in lowest terms (d > 0)
R(n, d) ==
    LET g == GCD(Abs(n), d)
    IN  [n |-> n \div g, d |-> d \div g]

Zero == [n |-> 0, d |-> 1]
One == [n |-> 1, d |-> 1]
NaN == [n |-> 0, d |-> 0]
Inf(s) == [n |-> s, d |-> 0]

IsNaN(a) == a.d = 0 /\ a.n = 0
IsFinite(a) == a.d # 0

RNeg(a) == [n |-> -a.n, d |-> a.d]

RAdd(a, b) ==
    IF IsNaN(a) \/ IsNaN(b) THEN NaN
    ELSE IF ~IsFinite(a) /\ ~IsFinite(b) THEN (IF a.n = b.n THEN a ELSE NaN)
    ELSE IF ~IsFinite(a) THEN a
    ELSE IF ~IsFinite(b) THEN b
    ELSE LET g == GCD(a.d, b.d)
         IN  R(a.n * (b.d \div g) + b.n * (a.d \div g), (a.d \div g) * b.d)

RSub(a, b) == RAdd(a, RNeg(b))

RMul(a, b) ==
    IF IsNaN(a) \/ IsNaN(b) THEN NaN
    ELSE IF ~IsFinite(a) \/ ~IsFinite(b)
         THEN (IF a.n = 0 \/ b.n = 0 THEN NaN ELSE Inf(Sign(a.n) * Sign(b.n)))
    ELSE LET g1 == GCD(Abs(a.n), b.d)
             g2 == GCD(Abs(b.n), a.d)
         IN  [n |-> (a.n \div g1) * (b.n \div g2), d |-> (a.d \div g2) * (b.d \div g1)]

\* float division as pandas/numpy perform it: x/0 is +-inf, 0/0 is NaN
RDiv(a, b) ==
    IF IsNaN(a) \/ IsNaN(b) THEN NaN
    ELSE IF ~IsFinite(b) THEN (IF IsFinite(a) THEN Zero ELSE NaN)
    ELSE IF b.n = 0 THEN (IF a.n = 0 THEN NaN ELSE Inf(Sign(a.n)))
    ELSE IF ~IsFinite(a) THEN Inf(Sign(a.n) * Sign(b.n))
    ELSE RMul(a, [n |-> Sign(b.n) * b.d, d |-> Abs(b.n)])

RLt(a, b) == a.n * b.d < b.n * a.d

Int2R(k) == [n |-> k, d |-> 1]

(***************************************************************************)
(* Calendar dates (datetime.date) and dateutil's relativedelta(months=i).  *)
(***************************************************************************)
None == [none |-> TRUE]

Date(y, m, d) == [y |-> y, m |-> m, d |-> d]

IsLeap(y) == (y % 4 = 0 /\ y % 100 # 0) \/ y % 400 = 0

DaysInMonth(y, m) ==
    IF m = 2 THEN (IF IsLeap(y) THEN 29 ELSE 28)
    ELSE IF m \in {4, 6, 9, 11} THEN 30 ELSE 31

\* date.__lt__
DateLt(a, b) ==
    \/ a.y < b.y
    \/ a.y = b.y /\ a.m < b.m
    \/ a.y = b.y /\ a.m = b.m /\ a.d < b.d

AddMonthsNoCarry(dt, k) ==
    Date(dt.y, ((dt.m - 1 + k) % 12) + 1, dt.d)

\* dt + relativedelta(months=k): the month advances with carry into the year
\* and the day is clamped to the length of the resulting month
AddMonths(dt, k) ==
    LET total == dt.m - 1 + k
        y == dt.y + (total \div 12)
        m == (total % 12) + 1
        last == DaysInMonth(y, m)
    IN  Date(y, m, IF dt.d > last THEN last ELSE dt.d)

DefaultStartDate == Date(2026, 1, 1)

\* RevenueCalculator.__init__
RevenueCalculatorInit(start_arg, months_arg) ==
    LET sd == IF start_arg = None THEN DefaultStartDate ELSE start_arg
    IN  [start_date |-> sd,
         months |-> months_arg,
         dates |-> [i \in 1..months_arg |-> AddMonths(sd, i - 1)]]

(***************************************************************************)
(* Machine (src/src/database.py) and its two calculated properties.        *)
(***************************************************************************)
management_fee_makina_total_only(machine) == machine.management_fee_total

\* Machine.management_fee_makina
management_fee_makina(machine) ==
    RMul(machine.management_fee_total, machine.management_fee_makina_share)

\* Machine.performance_fee_makina
performance_fee_makina(machine) ==
    RMul(machine.performance_fee_total, machine.performance_fee_makina_share)

(***************************************************************************)
(* RevenueCalculator.calculate_machine_projections, piece by piece.        *)
(***************************************************************************)
CurrencyRateSwapped(machine, scen) ==
    IF machine.currency = "ETH" THEN scen.btc_price
    ELSE IF machine.currency = "BTC" THEN scen.eth_price
    ELSE One

\* currency_rates.get(machine.currency, 1.0)
CurrencyRate(machine, scen) ==
    IF machine.currency = "ETH" THEN scen.eth_price
    ELSE IF machine.currency = "USD" THEN One
    ELSE IF machine.currency = "BTC" THEN scen.btc_price
    ELSE One

NotLaunchedInclusive(machine, month_date) ==
    /\ machine.launch_date # None
    /\ ~DateLt(machine.launch_date, month_date)

\* machine.launch_date and month_date < machine.launch_date
NotLaunched(machine, month_date) ==
    /\ machine.launch_date # None
    /\ DateLt(month_date, machine.launch_date)

IsLaunchMonthOrLater(machine, month_date) ==
    /\ machine.launch_date # None
    /\ ~DateLt(month_date, machine.launch_date)

\* machine.launch_date and month_date == machine.launch_date
IsLaunchMonth(machine, month_date) ==
    /\ machine.launch_date # None
    /\ month_date = machine.launch_date

\* the row appended before launch
ZeroRow(month_date) ==
    [date |-> month_date,
     aum |-> Zero,
     aum_usd |-> Zero,
     management_fee |-> Zero,
     management_fee_usd |-> Zero,
     performance_fee |-> Zero,
     performance_fee_usd |-> Zero,
     total_fee_usd |-> Zero]

ManagementFeeOnTotalRate(machine, aum) ==
    RDiv(RMul(aum, machine.management_fee_total), Int2R(12))

\* management_fee_native = current_aum * machine.management_fee_makina / 12
ManagementFeeNative(machine, aum) ==
    RDiv(RMul(aum, management_fee_makina(machine)), Int2R(12))

\* monthly_yield = current_aum * machine.yield_apr / 12
MonthlyYield(machine, aum) ==
    RDiv(RMul(aum, machine.yield_apr), Int2R(12))

EmployeeCapitalRateAsPercent(machine) ==
    IF machine.employee_capital = None \/ machine.employee_capital = Zero
    THEN Zero
    ELSE RMul(machine.employee_capital, Int2R(100))

\* machine.employee_capital if machine.employee_capital else 0.0
EmployeeCapitalRate(machine) ==
    IF machine.employee_capital = None \/ machine.employee_capital = Zero
    THEN Zero
    ELSE machine.employee_capital

PerformanceFeeNoMargin(machine, aum) ==
    RMul(RMul(performance_fee_makina(machine), MonthlyYield(machine, aum)),
         RSub(One, EmployeeCapitalRate(machine)))

\* performance_fee_native
PerformanceFeeNative(machine, aum) ==
    RMul(RMul(RMul(performance_fee_makina(machine), MonthlyYield(machine, aum)),
              machine.net_return_margin),
         RSub(One, EmployeeCapitalRate(machine)))

TotalFeeManagementOnly(management_fee_usd, performance_fee_usd) ==
    management_fee_usd

\* total_fee_usd = management_fee_usd + performance_fee_usd
TotalFeeUsd(management_fee_usd, performance_fee_usd) ==
    RAdd(management_fee_usd, performance_fee_usd)

\* the row appended from the launch month on
ProjectionRow(machine, month_date, aum, r) ==
    LET management_fee_native == ManagementFeeNative(machine, aum)
        management_fee_usd == RMul(management_fee_native, r)
        performance_fee_native == PerformanceFeeNative(machine, aum)
        performance_fee_usd == RMul(performance_fee_native, r)
    IN  [date |-> month_date,
         aum |-> aum,
         aum_usd |-> RMul(aum, r),
         management_fee |-> management_fee_native,
         management_fee_usd |-> management_fee_usd,
         performance_fee |-> performance_fee_native,
         performance_fee_usd |-> performance_fee_usd,
         total_fee_usd |-> TotalFeeUsd(management_fee_usd, performance_fee_usd)]

NextAumCompounding(machine, aum) ==
    RAdd(aum, RMul(aum, machine.monthly_growth_rate))

\* monthly_addition = machine.initial_aum * machine.monthly_growth_rate
\* current_aum = current_aum + monthly_addition
NextAum(machine, aum) ==
    RAdd(aum, RMul(machine.initial_aum, machine.monthly_growth_rate))

RowColumns ==
    <<"date", "aum", "aum_usd", "management_fee", "management_fee_usd",
      "performance_fee", "performance_fee_usd", "total_fee_usd">>

\* df = pd.DataFrame(results); df['machine_name'] = ...; df['currency'] = ...
\* (a DataFrame built from an empty list has no columns of its own)
MachineDataFrame(machine, rows) ==
    [columns |-> (IF rows = <<>> THEN <<>> ELSE RowColumns)
                 \o <<"machine_name", "currency">>,
     rows |-> [k \in 1..Len(rows) |->
                 [date |-> rows[k].date,
                  aum |-> rows[k].aum,
                  aum_usd |-> rows[k].aum_usd,
                  management_fee |-> rows[k].management_fee,
                  management_fee_usd |-> rows[k].management_fee_usd,
                  performance_fee |-> rows[k].performance_fee,
                  performance_fee_usd |-> rows[k].performance_fee_usd,
                  total_fee_usd |-> rows[k].total_fee_usd,
                  machine_name |-> machine.name,
                  currency |-> machine.currency]]]

(***************************************************************************)
(* RevenueCalculator.calculate_all_machines.                               *)
(***************************************************************************)
ProjectionColumns ==
    <<"date", "aum", "aum_usd", "management_fee", "management_fee_usd",
      "performance_fee", "performance_fee_usd", "total_fee_usd",
      "machine_name", "currency">>

EmptyProjectionsNoColumns == [columns |-> <<>>, rows |-> <<>>]

\* pd.DataFrame(columns=[...]): the empty dataset with the ten columns
EmptyProjections == [columns |-> ProjectionColumns, rows |-> <<>>]

RECURSIVE AppendNew(_, _)
\* the columns of cols2 that cols1 lacks, appended to cols1 in their order
AppendNew(cols1, cols2) ==
    IF cols2 = <<>> THEN cols1
    ELSE AppendNew(IF \E k \in 1..Len(cols1) : cols1[k] = Head(cols2)
                   THEN cols1 ELSE Append(cols1, Head(cols2)),
                   Tail(cols2))

RECURSIVE Concat(_)
ConcatKeepsLast(dfs) ==
    [columns |-> dfs[Len(dfs)].columns, rows |-> dfs[Len(dfs)].rows]

\* pd.concat(all_dfs, ignore_index=True): rows in list order, union of columns
Concat(dfs) ==
    IF Len(dfs) = 1 THEN dfs[1]
    ELSE LET rest == Concat(Tail(dfs))
         IN  [columns |-> AppendNew(dfs[1].columns, rest.columns),
              rows |-> dfs[1].rows \o rest.rows]

(***************************************************************************)
(* The inputs of a run.                                                    *)
(***************************************************************************)
KnownCurrencies == {"USD", "ETH", "BTC"}

Currencies == KnownCurrencies \cup {"EUR"}

StartDateArgs == {None, Date(2026, 11, 1), Date(2026, 12, 31)}

LaunchDates == {None, Date(2026, 2, 1), Date(2026, 12, 1), Date(2027, 1, 15)}

MonthsArgs == (-1)..MaxMonths

InitialAums == {R(-1200, 1), Zero, R(1000000, 1)}

GrowthRates == {Zero, R(1, 10), R(-1, 2)}

Scenarios ==
    {[eth_price |-> R(3, 1), btc_price |-> R(90, 1)],
     [eth_price |-> Zero, btc_price |-> R(5, 1)]}

\* fee structure, yield parameters and employee capital of a unit
FeeConfigs ==
    {[management_fee_total |-> R(1, 100), management_fee_makina_share |-> R(2, 5),
      performance_fee_total |-> R(15, 100), performance_fee_makina_share |-> R(2, 5),
      yield_apr |-> R(8, 100), net_return_margin |-> R(7, 10),
      employee_capital |-> Zero],
     [management_fee_total |-> R(75, 10000), management_fee_makina_share |-> R(1, 2),
      performance_fee_total |-> R(13, 100), performance_fee_makina_share |-> R(1, 4),
      yield_apr |-> R(5, 100), net_return_margin |-> One,
      employee_capital |-> R(1, 4)],
     [management_fee_total |-> R(3, 2), management_fee_makina_share |-> R(2, 5),
      performance_fee_total |-> R(-1, 10), performance_fee_makina_share |-> R(2, 5),
      yield_apr |-> R(3, 100), net_return_margin |-> R(7, 10),
      employee_capital |-> None]}

Unit(name, currency, launch_date, initial_aum, growth, fees) ==
    [name |-> name,
     currency |-> currency,
     launch_date |-> launch_date,
     initial_aum |-> initial_aum,
     monthly_growth_rate |-> growth,
     management_fee_total |-> fees.management_fee_total,
     management_fee_makina_share |-> fees.management_fee_makina_share,
     performance_fee_total |-> fees.performance_fee_total,
     performance_fee_makina_share |-> fees.performance_fee_makina_share,
     yield_apr |-> fees.yield_apr,
     net_return_margin |-> fees.net_return_margin,
     employee_capital |-> fees.employee_capital]

\* the units a run over a single unit draws from
Units ==
    {Unit("DNEW", c, l, a, g, f) :
        c \in Currencies, l \in LaunchDates, a \in InitialAums,
        g \in GrowthRates, f \in FeeConfigs}

DefaultFees(mft, pft, yield) ==
    [management_fee_total |-> mft, management_fee_makina_share |-> R(2, 5),
     performance_fee_total |-> pft, performance_fee_makina_share |-> R(2, 5),
     yield_apr |-> yield, net_return_margin |-> R(7, 10),
     employee_capital |-> Zero]

\* the units a run over several units draws from: units in three currencies,
\* one of them with a launch date and one with a negative balance
PortfolioUnits ==
    {Unit("DETH", "ETH", None, R(1200, 1), R(1, 10),
          DefaultFees(R(75, 10000), R(13, 100), R(5, 100))),
     Unit("DBIT", "BTC", None, R(200, 1), R(1, 10),
          DefaultFees(R(5, 1000), R(1, 10), R(3, 100))),
     Unit("DUSD", "USD", Date(2026, 12, 1), R(24000, 1), Zero,
          DefaultFees(R(1, 100), R(15, 100), R(8, 100))),
     Unit("DNEG", "USD", None, R(-24000, 1), Zero,
          DefaultFees(R(75, 10000), R(13, 100), R(5, 100)))}

RECURSIVE Lists(_, _)
\* the lists of exactly k elements of S
Lists(S, k) ==
    IF k = 0 THEN {<<>>}
    ELSE {<<x>> \o l : x \in S, l \in Lists(S, k - 1)}

\* units that launched in February 2026
LaunchedUnits ==
    {Unit("DOLD", "ETH", Date(2026, 2, 1), R(1200, 1), R(1, 10),
          DefaultFees(R(75, 10000), R(13, 100), R(5, 100))),
     Unit("DOLU", "USD", Date(2026, 2, 1), R(24000, 1), R(1, 20),
          [DefaultFees(R(1, 100), R(15, 100), R(8, 100))
              EXCEPT !.employee_capital = R(1, 4)])}

\* a unit with a launch date next to the same unit without one
LaunchPairs ==
    {<<u, [u EXCEPT !.launch_date = None]>> : u \in LaunchedUnits}

MachineLists ==
    {<<>>} \cup {<<u>> : u \in Units}
           \cup UNION {Lists(PortfolioUnits, k) : k \in 2..MaxUnits}
           \cup LaunchPairs

(***************************************************************************)
(* State machine.                                                          *)
(***************************************************************************)
\* no dashboard session runs and the database is not opened
NoSession ==
    /\ db_scenario = None
    /\ db_machines = <<>>
    /\ tx_machines = None
    /\ session_state = None
    /\ app_pc = "not_started"
    /\ restore_i = 1
    /\ at_default = None
    /\ before_restore = <<>>
    /\ last_handler = "none"

Init ==
    \E sd \in StartDateArgs, m \in MonthsArgs :
        LET calc == RevenueCalculatorInit(sd, m)
        IN  /\ start_date = calc.start_date
            /\ months = calc.months
            /\ dates = calc.dates
            /\ machines \in MachineLists
            /\ scenario \in Scenarios
            /\ pc = "all_loop"
            /\ mi = 1
            /\ di = 1
            /\ rate = One
            /\ current_aum = Zero
            /\ results = <<>>
            /\ all_dfs = <<>>
            /\ all_projections = None
            /\ view = None
            /\ calls = 1
            /\ prev_dfs = <<>>
            /\ prev_machines = <<>>
            /\ NoSession

BeginProjectionKeepsAum ==
    /\ pc = "all_loop"
    /\ mi <= Len(machines)
    /\ results' = <<>>
    /\ rate' = CurrencyRate(machines[mi], scenario)
    /\ di' = 1
    /\ pc' = "month_loop"
    /\ UNCHANGED <<start_date, months, dates, machines, scenario, mi, all_dfs,
                   all_projections, view, calls, prev_dfs, prev_machines,
                   current_aum, sessVars>>

\* calculate_machine_projections is entered for machines[mi]: lines 39-50
BeginProjection ==
    /\ pc = "all_loop"
    /\ mi <= Len(machines)
    /\ results' = <<>>
    /\ rate' = CurrencyRate(machines[mi], scenario)
    /\ current_aum' = machines[mi].initial_aum
    /\ di' = 1
    /\ pc' = "month_loop"
    /\ UNCHANGED <<start_date, months, dates, machines, scenario, mi, all_dfs,
                   all_projections, view,
                   calls, prev_dfs, prev_machines, sessVars>>

\* one pass of the month loop before launch: lines 54-66
PreLaunchMonth ==
    /\ pc = "month_loop"
    /\ di <= Len(dates)
    /\ NotLaunched(machines[mi], dates[di])
    /\ results' = Append(results, ZeroRow(dates[di]))
    /\ di' = di + 1
    /\ UNCHANGED <<start_date, months, dates, machines, scenario, pc, mi, rate,
                   current_aum, all_dfs, all_projections, view,
                   calls, prev_dfs, prev_machines, sessVars>>

ActiveMonthWritesBack ==
    /\ pc = "month_loop"
    /\ di <= Len(dates)
    /\ ~NotLaunched(machines[mi], dates[di])
    /\ results' = Append(results,
                         ProjectionRow(machines[mi], dates[di],
                                       machines[mi].initial_aum, rate))
    /\ machines' = [machines EXCEPT
                       ![mi].initial_aum = NextAum(machines[mi], machines[mi].initial_aum)]
    /\ di' = di + 1
    /\ UNCHANGED <<start_date, months, dates, scenario, pc, mi, rate, current_aum,
                   all_dfs, all_projections, view, calls, prev_dfs, prev_machines,
                   sessVars>>

\* one pass of the month loop from launch on: lines 68-109
ActiveMonth ==
    /\ pc = "month_loop"
    /\ di <= Len(dates)
    /\ ~NotLaunched(machines[mi], dates[di])
    /\ LET aum == IF IsLaunchMonth(machines[mi], dates[di])
                  THEN machines[mi].initial_aum
                  ELSE current_aum
       IN  /\ results' = Append(results,
                                ProjectionRow(machines[mi], dates[di], aum, rate))
           /\ current_aum' = NextAum(machines[mi], aum)
    /\ di' = di + 1
    /\ UNCHANGED <<start_date, months, dates, machines, scenario, pc, mi, rate,
                   all_dfs, all_projections, view,
                   calls, prev_dfs, prev_machines, sessVars>>

\* the month loop is over: lines 111-114, and the append of line 125
EndProjection ==
    /\ pc = "month_loop"
    /\ di > Len(dates)
    /\ all_dfs' = Append(all_dfs, MachineDataFrame(machines[mi], results))
    /\ mi' = mi + 1
    /\ pc' = "all_loop"
    /\ UNCHANGED <<start_date, months, dates, machines, scenario, di, rate,
                   current_aum, results, all_projections, view,
                   calls, prev_dfs, prev_machines, sessVars>>

\* calculate_all_machines returns: lines 127-135
ReturnAllMachines ==
    /\ pc = "all_loop"
    /\ mi > Len(machines)
    /\ all_projections' = IF all_dfs = <<>> THEN EmptyProjections ELSE Concat(all_dfs)
    /\ pc' = "aggregate"
    /\ UNCHANGED <<start_date, months, dates, machines, scenario, mi, di, rate,
                   current_aum, results, all_dfs, view,
                   calls, prev_dfs, prev_machines, sessVars>>

\* the caller, holding a dataset, calls calculate_all_machines again on the
\* same calculator with the same units and scenario: lines 116-122
CallAllMachinesAgain ==
    /\ pc = "aggregate"
    /\ calls < MaxCalls
    /\ calls' = calls + 1
    /\ prev_dfs' = all_dfs
    /\ prev_machines' = machines
    /\ all_dfs' = <<>>
    /\ mi' = 1
    /\ all_projections' = None
    /\ view' = None
    /\ pc' = "all_loop"
    /\ UNCHANGED <<start_date, months, dates, machines, scenario, di, rate,
                   current_aum, results, sessVars>>

(***************************************************************************)
(* The aggregators of RevenueCalculator.                                   *)
(***************************************************************************)
\* DataFrame.empty: some axis has length 0
DfEmpty(df) == df.rows = <<>> \/ df.columns = <<>>

\* the order of str.__lt__ on the currency tags
CurrencyRank(c) ==
    IF c = "BTC" THEN 1 ELSE IF c = "ETH" THEN 2 ELSE IF c = "EUR" THEN 3 ELSE 4

\* the order of groupby(['date', 'currency']) on its keys
KeyLt(a, b) ==
    \/ DateLt(a[1], b[1])
    \/ a[1] = b[1] /\ CurrencyRank(a[2]) < CurrencyRank(b[2])

RECURSIVE SortDates(_)
\* the dates of S in ascending order
SortDates(S) ==
    IF S = {} THEN <<>>
    ELSE LET least == CHOOSE x \in S : \A y \in S : ~DateLt(y, x)
         IN  <<least>> \o SortDates(S \ {least})

RECURSIVE SortKeys(_)
\* the (date, currency) keys of S in ascending order
SortKeys(S) ==
    IF S = {} THEN <<>>
    ELSE LET least == CHOOSE x \in S : \A y \in S : ~KeyLt(y, x)
         IN  <<least>> \o SortKeys(S \ {least})

RECURSIVE SortInts(_)
SortInts(S) ==
    IF S = {} THEN <<>>
    ELSE LET least == CHOOSE x \in S : \A y \in S : x <= y
         IN  <<least>> \o SortInts(S \ {least})

RECURSIVE SumField(_, _)
\* the 'sum' of a column over a sequence of rows
SumField(rows, field) ==
    IF rows = <<>> THEN Zero
    ELSE RAdd(rows[1][field], SumField(Tail(rows), field))

MeanFieldAsSum(rows, field) == SumField(rows, field)

\* the 'mean' of a column over a non-empty sequence of rows
MeanField(rows, field) == RDiv(SumField(rows, field), Int2R(Len(rows)))

\* Series.fillna(0)
FillNa0(x) == IF IsNaN(x) THEN Zero ELSE x

RowsOfDateFirst(rows, dt) == SubSeq(SelectSeq(rows, LAMBDA r : r.date = dt), 1, 1)

RowsOfDate(rows, dt) == SelectSeq(rows, LAMBDA r : r.date = dt)

RowsOfKeyAnyCurrency(rows, key) == SelectSeq(rows, LAMBDA r : r.date = key[1])

RowsOfKey(rows, key) ==
    SelectSeq(rows, LAMBDA r : r.date = key[1] /\ r.currency = key[2])

RowsOfYearUpTo(rows, y) == SelectSeq(rows, LAMBDA r : r.date.y <= y)

RowsOfYear(rows, y) == SelectSeq(rows, LAMBDA r : r.date.y = y)

DatesOf(rows) == {rows[k].date : k \in 1..Len(rows)}

\* RevenueCalculator.aggregate_by_currency
aggregate_by_currency(df) ==
    IF DfEmpty(df)
    THEN [columns |-> <<"date", "currency", "aum", "aum_usd">>, rows |-> <<>>]
    ELSE LET keys == SortKeys({<<df.rows[k].date, df.rows[k].currency>> :
                                  k \in 1..Len(df.rows)})
         IN  [columns |-> <<"date", "currency", "aum", "aum_usd">>,
              rows |-> [k \in 1..Len(keys) |->
                  [date |-> keys[k][1],
                   currency |-> keys[k][2],
                   aum |-> SumField(RowsOfKey(df.rows, keys[k]), "aum"),
                   aum_usd |-> SumField(RowsOfKey(df.rows, keys[k]), "aum_usd")]]]

DailyTotalsTotalOfManagement(rows) ==
    LET ds == SortDates(DatesOf(rows))
    IN  [k \in 1..Len(ds) |->
            [date |-> ds[k],
             management_fee_usd |-> SumField(RowsOfDate(rows, ds[k]), "management_fee_usd"),
             performance_fee_usd |-> SumField(RowsOfDate(rows, ds[k]), "performance_fee_usd"),
             total_fee_usd |-> SumField(RowsOfDate(rows, ds[k]), "management_fee_usd"),
             aum_usd |-> SumField(RowsOfDate(rows, ds[k]), "aum_usd")]]

\* df.groupby('date').agg({... 'sum'}).reset_index() over the four USD columns
\* (lines 162-167 and 190-195)
DailyTotals(rows) ==
    LET ds == SortDates(DatesOf(rows))
    IN  [k \in 1..Len(ds) |->
            [date |-> ds[k],
             management_fee_usd |-> SumField(RowsOfDate(rows, ds[k]), "management_fee_usd"),
             performance_fee_usd |-> SumField(RowsOfDate(rows, ds[k]), "performance_fee_usd"),
             total_fee_usd |-> SumField(RowsOfDate(rows, ds[k]), "total_fee_usd"),
             aum_usd |-> SumField(RowsOfDate(rows, ds[k]), "aum_usd")]]

\* RevenueCalculator.aggregate_fees_by_date
aggregate_fees_by_date(df) ==
    IF DfEmpty(df)
    THEN [columns |-> <<"date", "management_fee_usd", "performance_fee_usd",
                        "total_fee_usd">>,
          rows |-> <<>>]
    ELSE [columns |-> <<"date", "management_fee_usd", "performance_fee_usd",
                        "total_fee_usd", "aum_usd">>,
          rows |-> DailyTotals(df.rows)]

YearColumns ==
    <<"year", "end_of_year_aum", "total_management_fees",
      "total_performance_fees", "total_fees", "avg_fee_pct">>

EndOfYearAumSummed(daily) == SumField(daily, "aum_usd")

\* x.loc[x['date'].idxmax(), 'aum_usd'] over the daily totals of one year
EndOfYearAum(daily) ==
    LET last == CHOOSE k \in 1..Len(daily) :
                    \A j \in 1..Len(daily) : ~DateLt(daily[k].date, daily[j].date)
    IN  daily[last].aum_usd

\* RevenueCalculator.aggregate_by_year
aggregate_by_year(df) ==
    IF DfEmpty(df)
    THEN [columns |-> YearColumns, rows |-> <<>>]
    ELSE LET daily_totals == DailyTotals(df.rows)
             years == SortInts({daily_totals[k].date.y : k \in 1..Len(daily_totals)})
         IN  [columns |-> YearColumns,
              rows |-> [k \in 1..Len(years) |->
                  LET of_year == RowsOfYear(daily_totals, years[k])
                      total_fee_usd == SumField(of_year, "total_fee_usd")
                      avg_aum_usd == MeanField(of_year, "aum_usd")
                  IN  [year |-> years[k],
                       end_of_year_aum |-> EndOfYearAum(of_year),
                       total_management_fees |-> SumField(of_year, "management_fee_usd"),
                       total_performance_fees |-> SumField(of_year, "performance_fee_usd"),
                       total_fees |-> total_fee_usd,
                       avg_fee_pct |->
                           FillNa0(RMul(RDiv(total_fee_usd, avg_aum_usd), Int2R(100)))]]]

calculate_fee_percentage_monthly(df) ==
    IF DfEmpty(df)
    THEN [columns |-> <<"date", "fee_pct_annualized">>, rows |-> <<>>]
    ELSE LET agg == aggregate_fees_by_date(df).rows
         IN  [columns |-> <<"date", "fee_pct_annualized", "total_fee_usd", "aum_usd">>,
              rows |-> [k \in 1..Len(agg) |->
                  [date |-> agg[k].date,
                   fee_pct_annualized |->
                       FillNa0(RMul(RDiv(agg[k].total_fee_usd, agg[k].aum_usd),
                                    Int2R(100))),
                   total_fee_usd |-> agg[k].total_fee_usd,
                   aum_usd |-> agg[k].aum_usd]]]

\* RevenueCalculator.calculate_fee_percentage
calculate_fee_percentage(df) ==
    IF DfEmpty(df)
    THEN [columns |-> <<"date", "fee_pct_annualized">>, rows |-> <<>>]
    ELSE LET agg == aggregate_fees_by_date(df).rows
         IN  [columns |-> <<"date", "fee_pct_annualized", "total_fee_usd", "aum_usd">>,
              rows |-> [k \in 1..Len(agg) |->
                  [date |-> agg[k].date,
                   fee_pct_annualized |->
                       FillNa0(RMul(RMul(RDiv(agg[k].total_fee_usd, agg[k].aum_usd),
                                         Int2R(12)), Int2R(100))),
                   total_fee_usd |-> agg[k].total_fee_usd,
                   aum_usd |-> agg[k].aum_usd]]]

\* a caller runs aggregate_by_currency on the dataset
AggregateByCurrency ==
    /\ pc = "aggregate"
    /\ view' = [kind |-> "by_currency", df |-> aggregate_by_currency(all_projections)]
    /\ UNCHANGED <<start_date, months, dates, machines, scenario, pc, mi, di, rate,
                   current_aum, results, all_dfs, all_projections,
                   calls, prev_dfs, prev_machines, sessVars>>

\* a caller runs aggregate_fees_by_date on the dataset
AggregateFeesByDate ==
    /\ pc = "aggregate"
    /\ view' = [kind |-> "fees_by_date", df |-> aggregate_fees_by_date(all_projections)]
    /\ UNCHANGED <<start_date, months, dates, machines, scenario, pc, mi, di, rate,
                   current_aum, results, all_dfs, all_projections,
                   calls, prev_dfs, prev_machines, sessVars>>

\* a caller runs aggregate_by_year on the dataset
AggregateByYear ==
    /\ pc = "aggregate"
    /\ view' = [kind |-> "by_year", df |-> aggregate_by_year(all_projections)]
    /\ UNCHANGED <<start_date, months, dates, machines, scenario, pc, mi, di, rate,
                   current_aum, results, all_dfs, all_projections,
                   calls, prev_dfs, prev_machines, sessVars>>

\* a caller runs calculate_fee_percentage on the dataset
CalculateFeePercentage ==
    /\ pc = "aggregate"
    /\ view' = [kind |-> "fee_percentage", df |-> calculate_fee_percentage(all_projections)]
    /\ UNCHANGED <<start_date, months, dates, machines, scenario, pc, mi, di, rate,
                   current_aum, results, all_dfs, all_projections,
                   calls, prev_dfs, prev_machines, sessVars>>

Next ==
    \/ BeginProjection
    \/ PreLaunchMonth
    \/ ActiveMonth
    \/ EndProjection
    \/ ReturnAllMachines
    \/ CallAllMachinesAgain
    \/ AggregateByCurrency
    \/ AggregateFeesByDate
    \/ AggregateByYear
    \/ CalculateFeePercentage

Spec == Init /\ [][Next]_vars

(***************************************************************************)
(* The same calculator called for rearranged unit lists.                   *)
(***************************************************************************)
\* seq with the elements at i and i + 1 exchanged
SwapAt(seq, i) ==
    [k \in 1..Len(seq) |->
        IF k = i THEN seq[i + 1] ELSE IF k = i + 1 THEN seq[i] ELSE seq[k]]

\* the unit lists a caller derives from the list of its previous call: two
\* neighbours exchanged, or one unit of the list alone
Rearrangements(seq) ==
    {SwapAt(seq, i) : i \in 1..(Len(seq) - 1)} \cup {<<seq[i]>> : i \in 1..Len(seq)}

InitReorder ==
    \E sd \in StartDateArgs, m \in 1..MaxMonths :
        LET calc == RevenueCalculatorInit(sd, m)
        IN  /\ start_date = calc.start_date
            /\ months = calc.months
            /\ dates = calc.dates
            /\ machines \in UNION {Lists(PortfolioUnits, k) : k \in 2..MaxUnits}
            /\ scenario \in Scenarios
            /\ pc = "all_loop"
            /\ mi = 1
            /\ di = 1
            /\ rate = One
            /\ current_aum = Zero
            /\ results = <<>>
            /\ all_dfs = <<>>
            /\ all_projections = None
            /\ view = None
            /\ calls = 1
            /\ prev_dfs = <<>>
            /\ prev_machines = <<>>
            /\ NoSession

\* the caller, holding a dataset, calls calculate_all_machines on the same
\* calculator with the units of its list rearranged: lines 116-122
CallAllMachinesRearranged ==
    /\ pc = "aggregate"
    /\ calls < MaxCalls
    /\ calls' = calls + 1
    /\ prev_dfs' = all_dfs
    /\ prev_machines' = machines
    /\ machines' \in Rearrangements(machines)
    /\ all_dfs' = <<>>
    /\ mi' = 1
    /\ all_projections' = None
    /\ view' = None
    /\ pc' = "all_loop"
    /\ UNCHANGED <<start_date, months, dates, scenario, di, rate, current_aum,
                   results, sessVars>>

NextReorder ==
    \/ BeginProjection
    \/ PreLaunchMonth
    \/ ActiveMonth
    \/ EndProjection
    \/ ReturnAllMachines
    \/ CallAllMachinesRearranged
    \/ AggregateByCurrency
    \/ AggregateFeesByDate
    \/ AggregateByYear
    \/ CalculateFeePercentage

SpecReorder == InitReorder /\ [][NextReorder]_vars

(***************************************************************************)
(* The dashboard session (src/app.py) over the database                    *)
(* (src/src/database.py).                                                  *)
(***************************************************************************)
\* the scenario the dashboard works on, and another scenario of the database
SelectedScenario == [id |-> 1, name |-> "Base Case"]

OtherScenario == [id |-> 2, name |-> "Bear Case"]

\* st.session_state.default_eth_price = 3000.0
DefaultEthPrice == 3000

\* st.session_state.default_btc_price = 120000.0
DefaultBtcPrice == 120000

\* the prices the scenario row holds when a session starts: those of
\* init_default_data
StoredPrices == {[eth_price |-> R(3000, 1), btc_price |-> R(90000, 1)]}

\* the prices a user types into the two price inputs
TypedPrices == {[eth_price |-> R(3500, 1), btc_price |-> R(100000, 1)]}

\* the units the table can hold when a session starts: one with the column
\* default of employee_capital and one with employee capital
StoredUnits ==
    {u \in PortfolioUnits \cup LaunchedUnits : u.name \in {"DETH", "DOLU"}}

\* a row of the table machines
MachineRow(scenario_id, data) ==
    [scenario_id |-> scenario_id, machine |-> data]

\* the rows of another scenario
OtherRows ==
    <<MachineRow(OtherScenario.id, CHOOSE u \in PortfolioUnits : u.name = "DBIT")>>

\* session.query(Machine).filter_by(scenario_id=scenario_id).all()
MachinesOf(table, scenario_id) ==
    LET Mine(r) == r.scenario_id = scenario_id
        rows == SelectSeq(table, Mine)
    IN  [i \in 1..Len(rows) |-> rows[i].machine]

\* the keys of a snapshot entry: lines 213-223
SnapshotKeys ==
    {"name", "currency", "launch_date", "initial_aum", "monthly_growth_rate",
     "management_fee_total", "management_fee_makina_share",
     "performance_fee_total", "performance_fee_makina_share", "yield_apr",
     "net_return_margin"}

\* the configuration columns of the table machines: lines 31-50
MachineColumns == SnapshotKeys \cup {"employee_capital"}

\* save_machines_snapshot: lines 205-227
save_machines_snapshot(table, scenario_id) ==
    LET ms == MachinesOf(table, scenario_id)
    IN  [i \in 1..Len(ms) |-> [k \in SnapshotKeys |-> ms[i][k]]]

\* Machine(scenario_id=scenario_id, **machine_data), inserted: a column that
\* machine_data does not name gets its default, employee_capital 0.0
MachineFromData(machine_data) ==
    [k \in MachineColumns |->
        IF k \in DOMAIN machine_data THEN machine_data[k] ELSE Zero]

\* the unit of the form "Add New Machine" as the form proposes it
NewMachine ==
    Unit("New Machine", "USD", None, R(55000000, 1), R(1, 10),
         [management_fee_total |-> R(75, 10000),
          management_fee_makina_share |-> R(2, 5),
          performance_fee_total |-> R(15, 100),
          performance_fee_makina_share |-> R(2, 5),
          yield_apr |-> R(8, 100), net_return_margin |-> R(7, 10),
          employee_capital |-> Zero])

\* the balance a user types into the field "Initial AUM" of a unit
TypedAum == R(500, 1)

InitSession ==
    /\ start_date = DefaultStartDate
    /\ months = 0
    /\ dates = <<>>
    /\ machines = <<>>
    /\ scenario \in Scenarios
    /\ scenario.eth_price = R(3, 1)
    /\ pc = "all_loop"
    /\ mi = 1
    /\ di = 1
    /\ rate = One
    /\ current_aum = Zero
    /\ results = <<>>
    /\ all_dfs = <<>>
    /\ all_projections = None
    /\ view = None
    /\ calls = 1
    /\ prev_dfs = <<>>
    /\ prev_machines = <<>>
    /\ db_scenario \in StoredPrices
    /\ \E l \in UNION {Lists(StoredUnits, k) : k \in 0..MaxUnits} :
           db_machines =
               OtherRows \o [i \in 1..Len(l) |-> MachineRow(SelectedScenario.id, l[i])]
    /\ tx_machines = None
    /\ session_state = None
    /\ app_pc = "not_started"
    /\ restore_i = 1
    /\ at_default = None
    /\ before_restore = <<>>
    /\ last_handler = "none"

\* the first run of the script in a session: lines 60-84
SessionStart ==
    /\ app_pc = "not_started"
    /\ session_state' =
           [eth_price |-> db_scenario.eth_price,
            btc_price |-> db_scenario.btc_price,
            default_eth_price |-> R(DefaultEthPrice, 1),
            default_btc_price |-> R(DefaultBtcPrice, 1),
            default_machines_snapshot |->
                save_machines_snapshot(db_machines, SelectedScenario.id)]
    /\ at_default' = [eth_price |-> db_scenario.eth_price,
                      btc_price |-> db_scenario.btc_price,
                      machines |-> MachinesOf(db_machines, SelectedScenario.id),
                      saved |-> FALSE]
    /\ app_pc' = "idle"
    /\ last_handler' = "edit"
    /\ UNCHANGED <<calcVars, db_scenario, db_machines, tx_machines, restore_i,
                   before_restore>>

\* the user types new prices: lines 87-96
EditPrices ==
    /\ app_pc = "idle"
    /\ \E p \in TypedPrices :
           /\ (p.eth_price # session_state.eth_price
                   \/ p.btc_price # session_state.btc_price)
           /\ session_state' = [session_state EXCEPT !.eth_price = p.eth_price,
                                                     !.btc_price = p.btc_price]
           /\ db_scenario' = [db_scenario EXCEPT !.eth_price = p.eth_price,
                                                 !.btc_price = p.btc_price]
    /\ last_handler' = "edit"
    /\ before_restore' = <<>>
    /\ UNCHANGED <<calcVars, db_machines, tx_machines, app_pc, restore_i,
                   at_default>>

\* the places of the table that hold the units of the scenario
PlacesOf(table, scenario_id) ==
    {i \in 1..Len(table) : table[i].scenario_id = scenario_id}

\* "Save" of a unit with a new balance typed in: lines 426-440
SaveMachine ==
    /\ app_pc = "idle"
    /\ \E i \in PlacesOf(db_machines, SelectedScenario.id) :
           /\ db_machines[i].machine.initial_aum # TypedAum
           /\ db_machines' =
                  [db_machines EXCEPT ![i].machine.initial_aum = TypedAum]
    /\ last_handler' = "edit"
    /\ before_restore' = <<>>
    /\ UNCHANGED <<calcVars, db_scenario, tx_machines, session_state, app_pc,
                   restore_i, at_default>>

\* "Delete" of a unit: lines 443-447
DeleteMachine ==
    /\ app_pc = "idle"
    /\ \E i \in PlacesOf(db_machines, SelectedScenario.id) :
           db_machines' =
               SubSeq(db_machines, 1, i - 1) \o SubSeq(db_machines, i + 1, Len(db_machines))
    /\ last_handler' = "edit"
    /\ before_restore' = <<>>
    /\ UNCHANGED <<calcVars, db_scenario, tx_machines, session_state, app_pc,
                   restore_i, at_default>>

\* "Add Machine": lines 473-493
AddMachine ==
    /\ app_pc = "idle"
    /\ Cardinality(PlacesOf(db_machines, SelectedScenario.id)) < MaxUnits
    /\ db_machines' =
           Append(db_machines, MachineRow(SelectedScenario.id, NewMachine))
    /\ last_handler' = "edit"
    /\ before_restore' = <<>>
    /\ UNCHANGED <<calcVars, db_scenario, tx_machines, session_state, app_pc,
                   restore_i, at_default>>

\* "Save as Default": lines 142-153
SaveAsDefault ==
    /\ app_pc = "idle"
    /\ session_state' =
           [session_state EXCEPT
               !.default_eth_price = session_state.eth_price,
               !.default_btc_price = session_state.btc_price,
               !.default_machines_snapshot =
                   save_machines_snapshot(db_machines, SelectedScenario.id)]
    /\ at_default' = [eth_price |-> session_state.eth_price,
                      btc_price |-> session_state.btc_price,
                      machines |-> MachinesOf(db_machines, SelectedScenario.id),
                      saved |-> TRUE]
    /\ last_handler' = "edit"
    /\ before_restore' = <<>>
    /\ UNCHANGED <<calcVars, db_scenario, db_machines, tx_machines, app_pc,
                   restore_i>>

\* "Reset to Default" up to the call of restore_machines_snapshot: lines
\* 157-165
ResetToDefault ==
    /\ app_pc = "idle"
    /\ session_state' =
           [session_state EXCEPT !.eth_price = session_state.default_eth_price,
                                 !.btc_price = session_state.default_btc_price]
    /\ db_scenario' =
           [db_scenario EXCEPT !.eth_price = session_state.default_eth_price,
                               !.btc_price = session_state.default_btc_price]
    /\ before_restore' = MachinesOf(db_machines, SelectedScenario.id)
    /\ app_pc' = "restore_delete"
    /\ UNCHANGED <<calcVars, db_machines, tx_machines, restore_i, at_default,
                   last_handler>>

RestoreDeleteAutocommit ==
    /\ app_pc = "restore_delete"
    /\ LET Others(r) == r.scenario_id # SelectedScenario.id
       IN  /\ tx_machines' = SelectSeq(db_machines, Others)
           /\ db_machines' = SelectSeq(db_machines, Others)
    /\ restore_i' = 1
    /\ app_pc' = "restore_add"
    /\ UNCHANGED <<calcVars, db_scenario, session_state, at_default,
                   before_restore, last_handler>>

\* restore_machines_snapshot deletes the units of the scenario inside its
\* transaction: lines 231-235
RestoreDelete ==
    /\ app_pc = "restore_delete"
    /\ LET Others(r) == r.scenario_id # SelectedScenario.id
       IN  tx_machines' = SelectSeq(db_machines, Others)
    /\ restore_i' = 1
    /\ app_pc' = "restore_add"
    /\ UNCHANGED <<calcVars, db_scenario, db_machines, session_state, at_default,
                   before_restore, last_handler>>

\* one pass of the loop that recreates the units: lines 238-240
RestoreAdd ==
    /\ app_pc = "restore_add"
    /\ restore_i <= Len(session_state.default_machines_snapshot)
    /\ tx_machines' =
           Append(tx_machines,
                  MachineRow(SelectedScenario.id,
                             MachineFromData(
                                 session_state.default_machines_snapshot[restore_i])))
    /\ restore_i' = restore_i + 1
    /\ UNCHANGED <<calcVars, db_scenario, db_machines, session_state, app_pc,
                   at_default, before_restore, last_handler>>

\* session.commit() of the restore: line 242, and the rerun of line 167
RestoreCommit ==
    /\ app_pc = "restore_add"
    /\ restore_i > Len(session_state.default_machines_snapshot)
    /\ db_machines' = tx_machines
    /\ tx_machines' = None
    /\ app_pc' = "idle"
    /\ last_handler' = "reset"
    /\ UNCHANGED <<calcVars, db_scenario, session_state, restore_i, at_default,
                   before_restore>>

\* recreating a unit, or the flush of the commit, raises: the transaction is
\* rolled back and the exception leaves the handler: lines 243-246
RestoreFails ==
    /\ app_pc = "restore_add"
    /\ tx_machines' = None
    /\ app_pc' = "idle"
    /\ last_handler' = "reset_failed"
    /\ UNCHANGED <<calcVars, db_scenario, db_machines, session_state, restore_i,
                   at_default, before_restore>>

NextSession ==
    \/ SessionStart
    \/ EditPrices
    \/ SaveMachine
    \/ DeleteMachine
    \/ AddMachine
    \/ SaveAsDefault
    \/ ResetToDefault
    \/ RestoreDelete
    \/ RestoreAdd
    \/ RestoreCommit
    \/ RestoreFails

SpecSession == InitSession /\ [][NextSession]_vars

(***************************************************************************)
(* Properties of the projection engine.                                    *)
(***************************************************************************)
\* the projections calculate_machine_projections has returned so far
Returned ==
    {[machine |-> machines[i], rows |-> all_dfs[i].rows] : i \in 1..Len(all_dfs)}

\* the returned projections and the one whose month loop is running
Projections ==
    Returned \cup
    (IF pc = "month_loop" THEN {[machine |-> machines[mi], rows |-> results]} ELSE {})

\* months since year 0 of a date
MonthIndex(dt) == dt.y * 12 + (dt.m - 1)

\* the seven numeric fields of a row are all zero
AllZero(row) ==
    /\ row.aum = Zero
    /\ row.aum_usd = Zero
    /\ row.management_fee = Zero
    /\ row.management_fee_usd = Zero
    /\ row.performance_fee = Zero
    /\ row.performance_fee_usd = Zero
    /\ row.total_fee_usd = Zero

\* C1: for a positive horizon every returned projection has exactly months
\* rows, row 0 is dated start_date and row k is dated k calendar months after
\* it: chronological, no month skipped or repeated, pre-launch months included.
C1_OneRowPerMonth ==
    /\ \A p \in Projections : \A k \in 1..Len(p.rows) :
           /\ MonthIndex(p.rows[k].date) = MonthIndex(start_date) + (k - 1)
           /\ p.rows[k].date.m \in 1..12
           /\ k = 1 => p.rows[k].date = start_date
    /\ months > 0 => \A p \in Returned : Len(p.rows) = months

\* a projection of three months or more that runs over the end of a year
C1_Witness ==
    \E p \in Returned :
        /\ Len(p.rows) >= 3
        /\ p.rows[1].date.y = 2026
        /\ p.rows[Len(p.rows)].date.y = 2027
        /\ p.machine.launch_date # None
        /\ AllZero(p.rows[1])

\* C2: without a launch date the balance of row k is exactly
\* initial_aum + k * (initial_aum * monthly_growth_rate): linear growth, and
\* row 0 carries initial_aum.
C2_LinearGrowth ==
    \A p \in Projections :
        p.machine.launch_date = None =>
            \A k \in 1..Len(p.rows) :
                p.rows[k].aum =
                    RAdd(p.machine.initial_aum,
                         RMul(Int2R(k - 1),
                              RMul(p.machine.initial_aum,
                                   p.machine.monthly_growth_rate)))

\* a unit without launch date, with balance and growth, projected over three
\* months or more
C2_Witness ==
    \E p \in Returned :
        /\ p.machine.launch_date = None
        /\ p.machine.initial_aum = R(1000000, 1)
        /\ p.machine.monthly_growth_rate = R(1, 10)
        /\ Len(p.rows) >= 3
        /\ p.rows[3].aum = R(1200000, 1)

\* the calendar month of a is before the calendar month of b
MonthBefore(a, b) == MonthIndex(a) < MonthIndex(b)

C4_TotalIsSum ==
    \A p \in Projections : \A k \in 1..Len(p.rows) :
        p.rows[k].total_fee_usd =
            RAdd(p.rows[k].management_fee_usd, p.rows[k].performance_fee_usd)

\* a projection with a pre-launch row and a row with both fees non-zero
C4_Witness ==
    \E p \in Returned :
        /\ \E k \in 1..Len(p.rows) : AllZero(p.rows[k])
        /\ \E k \in 1..Len(p.rows) :
               /\ p.rows[k].management_fee_usd # Zero
               /\ p.rows[k].performance_fee_usd # Zero

\* the scenario price of a known currency
Price(currency) ==
    CASE currency = "ETH" -> scenario.eth_price
      [] currency = "BTC" -> scenario.btc_price
      [] currency = "USD" -> One

\* C5: in every row of a unit in USD, ETH or BTC each USD field is its native
\* field times the scenario price of the currency: eth_price for ETH,
\* btc_price for BTC and 1 for USD.
C5_UsdIsNativeTimesPrice ==
    \A p \in Projections :
        p.machine.currency \in KnownCurrencies =>
            \A k \in 1..Len(p.rows) :
                LET price == Price(p.machine.currency)
                IN  /\ p.rows[k].aum_usd = RMul(p.rows[k].aum, price)
                    /\ p.rows[k].management_fee_usd =
                           RMul(p.rows[k].management_fee, price)
                    /\ p.rows[k].performance_fee_usd =
                           RMul(p.rows[k].performance_fee, price)

\* an ETH unit with a balance, priced at 3 where BTC is priced at 90
C5_Witness ==
    \E p \in Returned :
        /\ p.machine.currency = "ETH"
        /\ scenario.eth_price = R(3, 1)
        /\ scenario.btc_price = R(90, 1)
        /\ \E k \in 1..Len(p.rows) :
               /\ p.rows[k].aum = R(1000000, 1)
               /\ p.rows[k].aum_usd = R(3000000, 1)
               /\ p.rows[k].management_fee # Zero

\* the row is of the launch month or later
PostLaunch(machine, row) ==
    machine.launch_date = None \/ ~DateLt(row.date, machine.launch_date)

RoundCents(a) == (a.n * 200 + a.d) \div (2 * a.d)

\* the unit of the worked example
ExampleUnit(m) ==
    /\ m.currency = "USD"
    /\ m.launch_date = None
    /\ m.initial_aum = R(1000000, 1)
    /\ m.monthly_growth_rate = Zero
    /\ m.management_fee_total = R(1, 100)
    /\ m.management_fee_makina_share = R(4, 10)
    /\ m.performance_fee_total = R(15, 100)
    /\ m.performance_fee_makina_share = R(4, 10)
    /\ m.yield_apr = R(8, 100)
    /\ m.net_return_margin = R(7, 10)
    /\ m.employee_capital = Zero

\* C7: the worked example (one USD unit, initial_aum 1,000,000, no growth,
\* fees 0.01 x 0.4 and 0.15 x 0.4, yield 0.08, margin 0.7, no employee
\* capital, horizon 1) yields a single row with management_fee 333.33,
\* performance_fee 280.00 and total_fee_usd 613.33, to the cent.
C7_WorkedExample ==
    \A p \in Returned :
        (ExampleUnit(p.machine) /\ months = 1) =>
            /\ Len(p.rows) = 1
            /\ RoundCents(p.rows[1].management_fee) = 33333
            /\ RoundCents(p.rows[1].performance_fee) = 28000
            /\ RoundCents(p.rows[1].total_fee_usd) = 61333

\* the projection of the worked example has returned
C7_Witness ==
    /\ months = 1
    /\ \E p \in Returned : ExampleUnit(p.machine) /\ Len(p.rows) = 1

\* C8: a unit whose currency is not USD, ETH or BTC is not projected: no row
\* is computed for it and no projection of it is returned (the call fails
\* with ConfigurationError instead of converting at a substituted rate).
C8_UnknownCurrencyRejected ==
    \A p \in Projections :
        p.machine.currency \notin KnownCurrencies =>
            p.rows = <<>> /\ p \notin Returned

\* the float a lies in [0, 1]
InUnitInterval(a) == ~RLt(a, Zero) /\ ~RLt(One, a)

\* the request satisfies the constraints of the contract
ValidRequest(m, horizon) ==
    /\ horizon > 0
    /\ ~RLt(m.initial_aum, Zero)
    /\ InUnitInterval(m.management_fee_total)
    /\ InUnitInterval(m.management_fee_makina_share)
    /\ InUnitInterval(m.performance_fee_total)
    /\ InUnitInterval(m.performance_fee_makina_share)
    /\ InUnitInterval(m.net_return_margin)
    /\ m.employee_capital # None => InUnitInterval(m.employee_capital)

\* C9: a request with negative initial_aum, a rate field outside [0,1] or a
\* non-positive horizon is rejected before any row is emitted: no row is
\* computed for it and no row sequence, partial or empty, is returned.
C9_InvalidRequestRejected ==
    \A p \in Projections :
        ~ValidRequest(p.machine, months) =>
            p.rows = <<>> /\ p \notin Returned

\* C10: with an empty unit list calculate_all_machines returns the dataset of
\* no rows and the ten projection columns, and each of the four aggregators
\* returns a result of no rows on it.
C10_EmptyUnitList ==
    machines = <<>> =>
        /\ pc # "month_loop"
        /\ pc = "aggregate" =>
               /\ all_projections.rows = <<>>
               /\ all_projections.columns =
                      <<"date", "aum", "aum_usd", "management_fee",
                        "management_fee_usd", "performance_fee",
                        "performance_fee_usd", "total_fee_usd",
                        "machine_name", "currency">>
        /\ view # None =>
               /\ view.kind \in {"by_currency", "fees_by_date", "by_year",
                                 "fee_percentage"}
               /\ view.df.rows = <<>>
               /\ view.df.columns # <<>>

\* the by-year rollup of the dataset of an empty unit list has been computed
C10_Witness ==
    /\ machines = <<>>
    /\ pc = "aggregate"
    /\ view # None
    /\ view.kind = "by_year"
    /\ view.df.rows = <<>>

(***************************************************************************)
(* Properties of the aggregators.                                          *)
(***************************************************************************)
\* the set of columns of a DataFrame
ColumnSet(df) == {df.columns[k] : k \in 1..Len(df.columns)}

\* the result of the aggregator that produced a view of the given kind
AggregatorResult(kind, df) ==
    CASE kind = "by_currency" -> aggregate_by_currency(df)
      [] kind = "fees_by_date" -> aggregate_fees_by_date(df)
      [] kind = "by_year" -> aggregate_by_year(df)
      [] kind = "fee_percentage" -> calculate_fee_percentage(df)

\* C11: each aggregator returns on the empty dataset a result with exactly
\* the set of columns it returns on a non-empty dataset.
C11_EmptyShapeMatches ==
    view # None =>
        ColumnSet(view.df) =
            ColumnSet(AggregatorResult(view.kind, [columns |-> ProjectionColumns,
                                                   rows |-> <<>>]))

RECURSIVE SumAt(_, _, _)
\* the sum of a field over the rows of ds at the indices I
SumAt(ds, I, field) ==
    IF I = {} THEN Zero
    ELSE LET i == CHOOSE i \in I : TRUE
         IN  RAdd(ds[i][field], SumAt(ds, I \ {i}, field))

\* period a is earlier than period b
PeriodBefore(a, b) == MonthIndex(a) * 31 + a.d < MonthIndex(b) * 31 + b.d

\* currency tag a sorts before currency tag b
CurrencyBefore(a, b) ==
    <<a, b>> \in {<<"BTC", "ETH">>, <<"BTC", "EUR">>, <<"BTC", "USD">>,
                  <<"ETH", "EUR">>, <<"ETH", "USD">>, <<"EUR", "USD">>}

\* the view of the given kind over the current dataset is on display
Viewing(kind) == pc = "aggregate" /\ view # None /\ view.kind = kind

\* the indices of the dataset rows of a period
AtPeriod(ds, dt) == {i \in 1..Len(ds) : ds[i].date = dt}

\* the indices of the dataset rows of a calendar year
InYear(ds, y) == {i \in 1..Len(ds) : ds[i].date.y = y}

\* C12: aggregate_by_currency returns one row per distinct (period, currency)
\* pair of the dataset, ordered by period then currency; the row's aum and
\* aum_usd are the sums over exactly the dataset rows of that period and that
\* currency, so a period has as many rows as currencies occur in it.
C12_ByCurrency ==
    Viewing("by_currency") =>
        LET out == view.df.rows
            ds == all_projections.rows
        IN  /\ {<<out[k].date, out[k].currency>> : k \in 1..Len(out)}
                   = {<<ds[i].date, ds[i].currency>> : i \in 1..Len(ds)}
            /\ \A j, k \in 1..Len(out) :
                   j < k =>
                       \/ PeriodBefore(out[j].date, out[k].date)
                       \/ /\ out[j].date = out[k].date
                          /\ CurrencyBefore(out[j].currency, out[k].currency)
            /\ \A k \in 1..Len(out) :
                   LET I == {i \in AtPeriod(ds, out[k].date) :
                                 ds[i].currency = out[k].currency}
                   IN  /\ out[k].aum = SumAt(ds, I, "aum")
                       /\ out[k].aum_usd = SumAt(ds, I, "aum_usd")
            /\ \A i \in 1..Len(ds) :
                   Cardinality({k \in 1..Len(out) : out[k].date = ds[i].date})
                       = Cardinality({ds[j].currency : j \in AtPeriod(ds, ds[i].date)})

\* two units of different currencies: two rows for one period, each with the
\* balance of its own unit
C12_Witness ==
    /\ Viewing("by_currency")
    /\ Len(machines) = 2
    /\ machines[1].currency = "ETH"
    /\ machines[2].currency = "BTC"
    /\ Len(view.df.rows) >= 2
    /\ view.df.rows[1].date = view.df.rows[2].date
    /\ view.df.rows[1].currency = "BTC"
    /\ view.df.rows[1].aum = R(200, 1)
    /\ view.df.rows[2].aum = R(1200, 1)

\* C13: aggregate_fees_by_date returns one row per distinct period of the
\* dataset, whose management_fee_usd, performance_fee_usd, total_fee_usd and
\* aum_usd are the sums of the field over all dataset rows of that period,
\* across every unit and currency.
C13_FeesByDate ==
    Viewing("fees_by_date") =>
        LET out == view.df.rows
            ds == all_projections.rows
        IN  /\ {out[k].date : k \in 1..Len(out)} = {ds[i].date : i \in 1..Len(ds)}
            /\ \A j, k \in 1..Len(out) : j # k => out[j].date # out[k].date
            /\ \A k \in 1..Len(out) :
                   LET I == AtPeriod(ds, out[k].date)
                   IN  /\ out[k].management_fee_usd = SumAt(ds, I, "management_fee_usd")
                       /\ out[k].performance_fee_usd = SumAt(ds, I, "performance_fee_usd")
                       /\ out[k].total_fee_usd = SumAt(ds, I, "total_fee_usd")
                       /\ out[k].aum_usd = SumAt(ds, I, "aum_usd")

\* two units of different currencies with balances: one row for the period,
\* carrying the sum of both
C13_Witness ==
    /\ Viewing("fees_by_date")
    /\ Len(machines) = 2
    /\ machines[1].currency = "ETH"
    /\ machines[2].currency = "BTC"
    /\ scenario.eth_price = R(3, 1)
    /\ Len(view.df.rows) = 1
    /\ view.df.rows[1].aum_usd = R(21600, 1)
    /\ view.df.rows[1].total_fee_usd # Zero

\* the latest period of the dataset that falls in calendar year y
LastPeriodOf(ds, y) ==
    CHOOSE dt \in {ds[i].date : i \in InYear(ds, y)} :
        \A i \in InYear(ds, y) : ~PeriodBefore(dt, ds[i].date)

\* C14: in aggregate_by_year, end_of_year_aum of year Y is the USD balance,
\* over all units, of the latest period of Y present in the dataset: the
\* balance of that single period, not the sum over the periods of Y.
C14_EndOfYearIsLastPeriod ==
    Viewing("by_year") =>
        LET out == view.df.rows
            ds == all_projections.rows
        IN  \A k \in 1..Len(out) :
                /\ InYear(ds, out[k].year) # {}
                /\ out[k].end_of_year_aum =
                       SumAt(ds, AtPeriod(ds, LastPeriodOf(ds, out[k].year)), "aum_usd")

\* two units over a year of several periods with growing balances: the
\* end-of-year balance differs from the sum over the year
C14_Witness ==
    /\ Viewing("by_year")
    /\ Len(machines) = 2
    /\ \E k \in 1..Len(view.df.rows) :
           LET ds == all_projections.rows
               y == view.df.rows[k].year
           IN  /\ Cardinality({ds[i].date : i \in InYear(ds, y)}) >= 2
               /\ view.df.rows[k].end_of_year_aum # Zero
               /\ view.df.rows[k].end_of_year_aum # SumAt(ds, InYear(ds, y), "aum_usd")

\* C15: aggregate_by_year returns one row per calendar year occurring among
\* the dataset's period dates, in ascending order of year, and the row's
\* total_management_fees, total_performance_fees and total_fees are the sums
\* of management_fee_usd, performance_fee_usd and total_fee_usd over all
\* dataset rows whose period falls in the year.
C15_ByYear ==
    Viewing("by_year") =>
        LET out == view.df.rows
            ds == all_projections.rows
        IN  /\ {out[k].year : k \in 1..Len(out)} = {ds[i].date.y : i \in 1..Len(ds)}
            /\ \A j, k \in 1..Len(out) : j < k => out[j].year < out[k].year
            /\ \A k \in 1..Len(out) :
                   LET I == InYear(ds, out[k].year)
                   IN  /\ out[k].total_management_fees = SumAt(ds, I, "management_fee_usd")
                       /\ out[k].total_performance_fees = SumAt(ds, I, "performance_fee_usd")
                       /\ out[k].total_fees = SumAt(ds, I, "total_fee_usd")

\* a dataset of two units running over the end of 2026: two year rows with
\* fees in both years
C15_Witness ==
    /\ Viewing("by_year")
    /\ Len(machines) = 2
    /\ Len(view.df.rows) = 2
    /\ view.df.rows[1].year = 2026
    /\ view.df.rows[2].year = 2027
    /\ view.df.rows[1].total_fees # Zero
    /\ view.df.rows[2].total_management_fees # Zero
    /\ view.df.rows[2].total_performance_fees # Zero
    /\ Cardinality(InYear(all_projections.rows, 2027)) >= 4

\* the mean, over the periods of year y, of the total USD balance of a period
MeanPeriodBalance(ds, y) ==
    RDiv(SumAt(ds, InYear(ds, y), "aum_usd"),
         Int2R(Cardinality({ds[i].date : i \in InYear(ds, y)})))

\* C16: in aggregate_by_year, avg_fee_pct of year Y is (sum of total USD fees
\* over the periods of Y) / (mean over the periods of Y of the period's total
\* USD balance) * 100 whenever that mean is not zero; the mean runs over
\* periods, pre-launch zero periods included, not over unit rows.
C16_AvgFeePct ==
    Viewing("by_year") =>
        LET out == view.df.rows
            ds == all_projections.rows
        IN  \A k \in 1..Len(out) :
                LET mean == MeanPeriodBalance(ds, out[k].year)
                IN  mean # Zero =>
                        out[k].avg_fee_pct =
                            RMul(RDiv(SumAt(ds, InYear(ds, out[k].year), "total_fee_usd"),
                                      mean),
                                 Int2R(100))

\* two units, one of them not launched in the first period of the year: the
\* mean over the two or more periods of the year is not the mean over rows
C16_Witness ==
    /\ Viewing("by_year")
    /\ Len(machines) = 2
    /\ machines[1].launch_date = None
    /\ machines[2].launch_date # None
    /\ \E k \in 1..Len(view.df.rows) :
           LET ds == all_projections.rows
               I == InYear(ds, view.df.rows[k].year)
           IN  /\ Cardinality({ds[i].date : i \in I}) >= 2
               /\ \E i \in I : AllZero(ds[i])
               /\ \E i \in I : ds[i].machine_name = machines[2].name /\ ~AllZero(ds[i])
               /\ MeanPeriodBalance(ds, view.df.rows[k].year) # Zero
               /\ IsFinite(view.df.rows[k].avg_fee_pct)
               /\ view.df.rows[k].avg_fee_pct # Zero

\* C17: calculate_fee_percentage returns one row per period, in ascending
\* order of period, with fee_pct_annualized = (total USD fee of the period /
\* total USD balance of the period) * 12 * 100 whenever that balance is not
\* zero.
C17_FeePercentage ==
    Viewing("fee_percentage") =>
        LET out == view.df.rows
            ds == all_projections.rows
        IN  /\ {out[k].date : k \in 1..Len(out)} = {ds[i].date : i \in 1..Len(ds)}
            /\ \A j, k \in 1..Len(out) : j < k => PeriodBefore(out[j].date, out[k].date)
            /\ \A k \in 1..Len(out) :
                   LET I == AtPeriod(ds, out[k].date)
                       balance == SumAt(ds, I, "aum_usd")
                   IN  balance # Zero =>
                           out[k].fee_pct_annualized =
                               RMul(RMul(RDiv(SumAt(ds, I, "total_fee_usd"), balance),
                                         Int2R(12)),
                                    Int2R(100))

\* two units with balances over three periods or more: a finite, non-zero
\* percentage in every period
C17_Witness ==
    /\ Viewing("fee_percentage")
    /\ Len(machines) = 2
    /\ machines[1].currency # machines[2].currency
    /\ Len(view.df.rows) >= 3
    /\ \A k \in 1..Len(view.df.rows) :
           /\ view.df.rows[k].aum_usd # Zero
           /\ IsFinite(view.df.rows[k].fee_pct_annualized)
           /\ view.df.rows[k].fee_pct_annualized # Zero

\* C18: whenever the aggregate USD balance is 0 (the total balance of a
\* period in calculate_fee_percentage, the mean balance of a year in
\* aggregate_by_year) the fee percentage returned is exactly 0, never NaN or
\* an infinity.
C18_ZeroBalanceGivesZero ==
    /\ Viewing("fee_percentage") =>
           LET out == view.df.rows
               ds == all_projections.rows
           IN  \A k \in 1..Len(out) :
                   SumAt(ds, AtPeriod(ds, out[k].date), "aum_usd") = Zero
                       => out[k].fee_pct_annualized = Zero
    /\ Viewing("by_year") =>
           LET out == view.df.rows
               ds == all_projections.rows
           IN  \A k \in 1..Len(out) :
                   MeanPeriodBalance(ds, out[k].year) = Zero
                       => out[k].avg_fee_pct = Zero

(***************************************************************************)
(* Properties of the calculator across calls.                              *)
(***************************************************************************)
\* C19: two calls of calculate_machine_projections on the same calculator
\* with equal unit, scenario, start_date and horizon return equal row
\* sequences, whether both are made within one calculate_all_machines call or
\* in two successive ones, and whatever calls were made in between.
C19_Deterministic ==
    /\ \A i, j \in 1..Len(all_dfs) :
           machines[i] = machines[j] => all_dfs[i] = all_dfs[j]
    /\ \A i \in 1..Len(all_dfs) : \A j \in 1..Len(prev_dfs) :
           machines[i] = machines[j] => all_dfs[i] = prev_dfs[j]

\* a growing unit projected in a first call, then another unit, then the
\* dataset returned, and the first unit projected again in a second call
C19_Witness ==
    /\ calls = 2
    /\ Len(prev_dfs) = 2
    /\ Len(all_dfs) >= 1
    /\ machines[1] # machines[2]
    /\ Len(prev_dfs[2].rows) >= 3
    /\ Len(all_dfs[1].rows) >= 3
    /\ all_dfs[1].rows[1].aum # Zero
    /\ all_dfs[1].rows[3].aum # all_dfs[1].rows[1].aum
    /\ all_dfs[1] = prev_dfs[1]

\* C20: no step of a projection or aggregation call changes the inputs of the
\* call: the unit configurations, the scenario prices and the calculator's
\* start_date, months and dates stay as they are, and an aggregator leaves the
\* dataset handed to it as it is.
C20_InputsUnchanged ==
    [][/\ machines' = machines
       /\ scenario' = scenario
       /\ start_date' = start_date
       /\ months' = months
       /\ dates' = dates
       /\ (pc = "aggregate" /\ pc' = "aggregate")
              => all_projections' = all_projections]_vars

\* projections of two units with growth have run twice and an aggregator has
\* run on the dataset
C20_Witness ==
    /\ Viewing("by_year")
    /\ calls = 2
    /\ Len(machines) = 2
    /\ Len(all_projections.rows) >= 4
    /\ current_aum # machines[2].initial_aum
    /\ current_aum # Zero
    /\ view.df.rows # <<>>

(***************************************************************************)
(* Properties of sign, launch gating and independence of units.            *)
(***************************************************************************)
\* a is not negative (and is a number)
NonNeg(a) == IsFinite(a) /\ ~RLt(a, Zero)

\* initial_aum >= 0, monthly_growth_rate >= 0, rates in [0,1], prices >= 0
NonNegativeInputs(m, scen) ==
    /\ NonNeg(m.initial_aum)
    /\ NonNeg(m.monthly_growth_rate)
    /\ InUnitInterval(m.management_fee_total)
    /\ InUnitInterval(m.management_fee_makina_share)
    /\ InUnitInterval(m.performance_fee_total)
    /\ InUnitInterval(m.performance_fee_makina_share)
    /\ InUnitInterval(m.yield_apr)
    /\ InUnitInterval(m.net_return_margin)
    /\ m.employee_capital # None => InUnitInterval(m.employee_capital)
    /\ NonNeg(scen.eth_price)
    /\ NonNeg(scen.btc_price)

\* C21: for non-negative inputs every balance, USD balance and fee of every
\* row is non-negative, and the native balance does not decrease from one
\* post-launch row to the next.
C21_NonNegative ==
    \A p \in Projections :
        NonNegativeInputs(p.machine, scenario) =>
            /\ \A k \in 1..Len(p.rows) :
                   /\ NonNeg(p.rows[k].aum)
                   /\ NonNeg(p.rows[k].aum_usd)
                   /\ NonNeg(p.rows[k].management_fee)
                   /\ NonNeg(p.rows[k].management_fee_usd)
                   /\ NonNeg(p.rows[k].performance_fee)
                   /\ NonNeg(p.rows[k].performance_fee_usd)
                   /\ NonNeg(p.rows[k].total_fee_usd)
            /\ \A k \in 1..(Len(p.rows) - 1) :
                   PostLaunch(p.machine, p.rows[k])
                       => ~RLt(p.rows[k + 1].aum, p.rows[k].aum)

\* a unit with employee capital, balance and growth, launching inside the
\* horizon: a zero row, the launch row, and a later row with a larger balance
\* and positive fees
C21_Witness ==
    \E p \in Returned :
        /\ NonNegativeInputs(p.machine, scenario)
        /\ p.machine.employee_capital = R(1, 4)
        /\ p.machine.launch_date # None
        /\ Len(p.rows) >= 3
        /\ AllZero(p.rows[1])
        /\ PostLaunch(p.machine, p.rows[2])
        /\ RLt(p.rows[2].aum, p.rows[3].aum)
        /\ RLt(Zero, p.rows[3].performance_fee_usd)
        /\ RLt(Zero, p.rows[3].management_fee_usd)

\* C22: launch gating goes by calendar month, whatever the days of month of
\* launch_date and start_date: a row of a month before the month of
\* launch_date is all-zero, the row of the month that contains launch_date
\* carries the balance initial_aum, and no row of that month or a later one is
\* an all-zero pre-launch row (told apart from an active row by a positive
\* initial_aum with non-negative growth).
C22_GatingByCalendarMonth ==
    \A p \in Projections :
        p.machine.launch_date # None =>
            \A k \in 1..Len(p.rows) :
                /\ MonthBefore(p.rows[k].date, p.machine.launch_date)
                       => AllZero(p.rows[k])
                /\ MonthIndex(p.rows[k].date) = MonthIndex(p.machine.launch_date)
                       => p.rows[k].aum = p.machine.initial_aum
                /\ (/\ AllZero(p.rows[k])
                    /\ RLt(Zero, p.machine.initial_aum)
                    /\ NonNeg(p.machine.monthly_growth_rate))
                       => MonthBefore(p.rows[k].date, p.machine.launch_date)

\* C23: a unit whose launch_date is earlier than start_date gets the row
\* sequence of the same unit with launch_date = None: its balance of row k is
\* initial_aum + k * (initial_aum * monthly_growth_rate), starting with
\* initial_aum in row 0 and with no zero row in front, and when both units
\* are projected by one calculator their row sequences are equal.
C23_LaunchedBeforeStart ==
    /\ \A p \in Projections :
           (p.machine.launch_date # None
                /\ DateLt(p.machine.launch_date, start_date)) =>
               \A k \in 1..Len(p.rows) :
                   p.rows[k].aum =
                       RAdd(p.machine.initial_aum,
                            RMul(Int2R(k - 1),
                                 RMul(p.machine.initial_aum,
                                      p.machine.monthly_growth_rate)))
    /\ \A p, q \in Returned :
           (/\ p.machine.launch_date # None
            /\ DateLt(p.machine.launch_date, start_date)
            /\ q.machine = [p.machine EXCEPT !.launch_date = None])
               => p.rows = q.rows

\* a unit launched before start_date and the same unit without launch date,
\* both projected over three months or more with a growing balance
C23_Witness ==
    \E p, q \in Returned :
        /\ p.machine.launch_date = Date(2026, 2, 1)
        /\ DateLt(p.machine.launch_date, start_date)
        /\ q.machine = [p.machine EXCEPT !.launch_date = None]
        /\ Len(p.rows) >= 3
        /\ p.rows = q.rows
        /\ p.rows[1].aum = p.machine.initial_aum
        /\ RLt(p.rows[1].aum, p.rows[3].aum)
        /\ p.rows[3].total_fee_usd # Zero

\* C24: for a unit whose launch month is row L of the horizon (L >= 0), the
\* balance of row L + j is initial_aum + j * (initial_aum *
\* monthly_growth_rate) for every j >= 0: pre-launch rows do not advance the
\* balance, and growth is applied after the launch row as after any other.
C24_GrowthCountsFromLaunchMonth ==
    \A p \in Projections :
        (p.machine.launch_date # None
             /\ ~MonthBefore(p.machine.launch_date, start_date)) =>
            \A k \in 1..Len(p.rows) :
                ~MonthBefore(p.rows[k].date, p.machine.launch_date) =>
                    p.rows[k].aum =
                        RAdd(p.machine.initial_aum,
                             RMul(Int2R(MonthIndex(p.rows[k].date)
                                            - MonthIndex(p.machine.launch_date)),
                                  RMul(p.machine.initial_aum,
                                       p.machine.monthly_growth_rate)))

\* the number of places of seq that hold x
Count(seq, x) == Cardinality({i \in 1..Len(seq) : seq[i] = x})

\* b holds the elements of a in some order
IsPermutation(a, b) ==
    /\ Len(a) = Len(b)
    /\ \A i \in 1..Len(a) : Count(a, a[i]) = Count(b, a[i])

\* the dataset the previous calculate_all_machines call returned
PrevDataset == IF prev_dfs = <<>> THEN EmptyProjections ELSE Concat(prev_dfs)

\* C25: the rows calculate_all_machines gets for a unit are those the unit got
\* in the previous call, whatever its place in the list and whatever other
\* units are in the list, the unit alone included; and an aggregator returns
\* for the dataset of a permuted unit list what it returns for the dataset of
\* the list before the permutation.
C25_UnitsIndependent ==
    /\ \A i \in 1..Len(all_dfs) : \A j \in 1..Len(prev_dfs) :
           machines[i] = prev_machines[j] => all_dfs[i] = prev_dfs[j]
    /\ (/\ calls > 1
        /\ IsPermutation(prev_machines, machines)
        /\ pc = "aggregate"
        /\ view # None)
           => view.df = AggregatorResult(view.kind, PrevDataset)

\* two different units in two currencies, projected in one order and then in
\* the other, and the by-year aggregator run on the second dataset
C25_Witness ==
    /\ Viewing("by_year")
    /\ calls = 2
    /\ Len(machines) = 2
    /\ machines = <<prev_machines[2], prev_machines[1]>>
    /\ machines[1].currency # machines[2].currency
    /\ all_dfs[1] = prev_dfs[2]
    /\ Len(all_dfs[1].rows) >= 2
    /\ all_projections # PrevDataset
    /\ Len(view.df.rows) = 2
    /\ view.df.rows[1].total_fees # Zero

(***************************************************************************)
(* Properties of the snapshots and of the dashboard session.               *)
(***************************************************************************)
\* the units of the scenario the dashboard works on
LiveMachines == MachinesOf(db_machines, SelectedScenario.id)

\* a restore has just run to its end
Restored == app_pc = "idle" /\ last_handler = "reset"

\* C26: after save_machines_snapshot, any edits, additions and deletions, and
\* restore_machines_snapshot of the saved snapshot, the scenario holds exactly
\* the units it held at save time, each with every configuration field at its
\* value of save time, employee_capital included; and the edits leave the
\* snapshot as it was taken.
C26_SnapshotRoundTrip ==
    /\ app_pc # "not_started" =>
           LET snapshot == session_state.default_machines_snapshot
           IN  /\ Len(snapshot) = Len(at_default.machines)
               /\ \A i \in 1..Len(snapshot) : \A k \in DOMAIN snapshot[i] :
                      snapshot[i][k] = at_default.machines[i][k]
    /\ Restored => LiveMachines = at_default.machines

\* C27: restore_machines_snapshot is atomic and scoped: while its transaction
\* is open, and after a failure to recreate a unit, the scenario holds exactly
\* the units it held before the call, never none or some of the snapshot; and
\* the units of another scenario are never changed, whether the restore
\* succeeds or fails.
C27_RestoreAtomic ==
    /\ app_pc = "restore_add" => LiveMachines = before_restore
    /\ (app_pc = "idle" /\ last_handler = "reset_failed")
           => LiveMachines = before_restore
    /\ MachinesOf(db_machines, OtherScenario.id)
           = MachinesOf(OtherRows, OtherScenario.id)

\* a restore of a snapshot of two units failed at its second unit, while the
\* scenario held one unit that is not of the snapshot
C27_Witness ==
    /\ app_pc = "idle"
    /\ last_handler = "reset_failed"
    /\ Len(session_state.default_machines_snapshot) = 2
    /\ restore_i = 2
    /\ Len(before_restore) = 1
    /\ before_restore[1].name = "New Machine"
    /\ LiveMachines = before_restore

\* C28: "Reset to Default" brings back the configuration the defaults were
\* taken from: before any "Save as Default" the scenario prices loaded at the
\* start of the session and the units of that moment, after a "Save as
\* Default" the prices and units current at the most recent save.
C28_ResetRestoresDefaults ==
    Restored =>
        /\ session_state.eth_price = at_default.eth_price
        /\ session_state.btc_price = at_default.btc_price
        /\ db_scenario.eth_price = at_default.eth_price
        /\ db_scenario.btc_price = at_default.btc_price
        /\ LiveMachines = at_default.machines

(***************************************************************************)
(* Properties that relate the aggregated views to each other.              *)
(***************************************************************************)
\* the indices of a sequence of rows
Rows(rs) == 1..Len(rs)

\* C29: the aggregated views conserve the totals of the dataset: for each
\* period the aum_usd of aggregate_by_currency summed over the currencies is
\* the aum_usd of aggregate_fees_by_date; total_fees of aggregate_by_year
\* summed over the years is total_fee_usd of aggregate_fees_by_date summed
\* over the periods, which is total_fee_usd summed over the dataset rows; and
\* in every year row total_fees = total_management_fees +
\* total_performance_fees.
C29_TotalsConserved ==
    (pc = "aggregate" /\ view # None) =>
        LET ds == all_projections.rows
            by_currency == IF Viewing("by_currency") THEN view.df.rows
                           ELSE aggregate_by_currency(all_projections).rows
            by_date == IF Viewing("fees_by_date") THEN view.df.rows
                       ELSE aggregate_fees_by_date(all_projections).rows
            by_year == IF Viewing("by_year") THEN view.df.rows
                       ELSE aggregate_by_year(all_projections).rows
        IN  /\ \A j \in Rows(by_date) :
                   SumAt(by_currency, AtPeriod(by_currency, by_date[j].date), "aum_usd")
                       = by_date[j].aum_usd
            /\ \A j \in Rows(by_currency) :
                   AtPeriod(by_date, by_currency[j].date) # {}
            /\ SumAt(by_year, Rows(by_year), "total_fees")
                   = SumAt(by_date, Rows(by_date), "total_fee_usd")
            /\ SumAt(by_date, Rows(by_date), "total_fee_usd")
                   = SumAt(ds, Rows(ds), "total_fee_usd")
            /\ \A j \in Rows(by_year) :
                   by_year[j].total_fees =
                       RAdd(by_year[j].total_management_fees,
                            by_year[j].total_performance_fees)

\* the by-year view of a dataset of two units in two currencies over two
\* calendar years, with fees in both years
C29_Witness ==
    /\ Viewing("by_year")
    /\ Len(machines) = 2
    /\ machines[1].currency # machines[2].currency
    /\ Len(view.df.rows) = 2
    /\ view.df.rows[1].total_fees # Zero
    /\ view.df.rows[2].total_fees # Zero
    /\ view.df.rows[1].total_performance_fees # Zero
    /\ Len(all_projections.rows) >= 6

\* the annual fee rate of a unit, in percent of its balance
AnnualFeePct(m) ==
    LET ec == IF m.employee_capital = None THEN Zero ELSE m.employee_capital
    IN  RMul(Int2R(100),
             RAdd(RMul(m.management_fee_total, m.management_fee_makina_share),
                  RMul(RMul(RMul(RMul(m.performance_fee_total,
                                      m.performance_fee_makina_share),
                                 m.yield_apr),
                            m.net_return_margin),
                       RSub(One, ec))))

====
